---- MODULE Spec2Model ----
(***************************************************************************)
(* BioSED numeric kernels                                                  *)
(*   biosed/_cpp/center_of_mass.cpp    compute_centers_of_mass             *)
(*   biosed/_cpp/crown_integration.cpp compute_crown_integral              *)
(*                                                                         *)
(* One call of a kernel is a run of the state machine: the arguments are   *)
(* fixed in Init, the validation, the geometry pass and the per-image loop *)
(* body are the actions.  The image stack is caller memory the kernels     *)
(* only read; frame imageIndex is first read by the pixel sweep of         *)
(* iteration imageIndex, so its content is drawn there and is held in      *)
(* `image` until the loop increment.  Iteration imageIndex reads and       *)
(* writes row imageIndex of the output array and no other row, so the      *)
(* output variables hold that one row; the loop increment moves on to the  *)
(* next row.  The accumulators keep their storage from one iteration to    *)
(* the next and are given their initial values where the loop body does.   *)
(*                                                                         *)
(* Doubles.  Every double the kernels produce from the bounded inputs is   *)
(* either an integer-valued sum (exact in binary64) or one correctly       *)
(* rounded quotient of two such sums.  A quotient is kept as the reduced   *)
(* fraction <<n, d>>, d > 0: two quotients of small integers are the same  *)
(* double iff they are the same fraction.  <<s, 0>> stands for the NaN or  *)
(* infinity a division by zero yields.  Angles are kept in micro-degrees.  *)
(***************************************************************************)
EXTENDS Integers, Sequences, FiniteSets, TLC

VARIABLES
    pc,             \* position in the call
    error,          \* kind of the exception thrown, "none" while running
    ndim,           \* bufData.ndim of the argument
    cContiguous,    \* flags() & py::array::c_style of the argument
    nImages, nQY, nQX,
    threshold,      \* compute_centers_of_mass argument
    nPhiBins, QRange, qCallibration,   \* compute_crown_integral arguments
    imageIndex,     \* imageIndex / iImage
    image,          \* frame imageIndex of the stack, flat row-major, offset k at k+1
    sumQY, sumQX, totalSum,
    centersOfMass,  \* row imageIndex of centersOfMass
    pixelsQ, pixelsPhi, validPixels, binIndicies,
    phiBinsSum, pixelCount,
    aziIntensityProfiles    \* row iImage of aziIntensityProfiles

vars == << pc, error, ndim, cContiguous, nImages, nQY, nQX, threshold,
           nPhiBins, QRange, qCallibration, imageIndex, image,
           sumQY, sumQX, totalSum, centersOfMass,
           pixelsQ, pixelsPhi, validPixels, binIndicies,
           phiBinsSum, pixelCount, aziIntensityProfiles >>

inputVars == << ndim, cContiguous, nImages, nQY, nQX, threshold,
                nPhiBins, QRange, qCallibration >>
comVars == << sumQY, sumQX, totalSum, centersOfMass >>
geomVars == << pixelsQ, pixelsPhi, validPixels, binIndicies >>
crownVars == << phiBinsSum, pixelCount, aziIntensityProfiles >>

----------------------------------------------------------------------------
(* Bounds.  The arguments are drawn within the preconditions of the        *)
(* geometry: non-empty frames, nPhiBins > 0, qMin <= qMax.                 *)

MaxImages == 2
ComMaxFrame == 4
CrownMaxFrame == 3
GeomMaxDim == 4
MaxNeg == 1
MaxPixel == 1
MaxPhiBins == 4
MaxQCal == 1
MaxQ == 1

PixelValues == (0 - MaxNeg)..MaxPixel
\* compute_crown_integral treats every negative sample alike (sample < 0)
CrownPixelValues == {0 - 1} \cup (0..MaxPixel)
Thresholds == (0 - MaxNeg)..(MaxPixel + 1)
NDims == {2, 3, 4}
QCalValues == {0 - 1} \cup (0..MaxQCal)
\* QRange with qMin <= qMax
QRanges == {r \in (0..MaxQ) \X (0..MaxQ) : r[1] <= r[2]}

\* frame shapes <<nQY, nQX>> of at most maxFrame pixels
Shapes(maxFrame) ==
    {s \in (1..maxFrame) \X (1..maxFrame) : s[1] * s[2] <= maxFrame}

Frames(h, w, values) == [1..(h * w) -> values]

----------------------------------------------------------------------------
(* Double arithmetic on the values the kernels meet *)

Abs(n) == IF n < 0 THEN 0 - n ELSE n
Sign(n) == IF n < 0 THEN 0 - 1 ELSE IF n > 0 THEN 1 ELSE 0

RECURSIVE GCD(_, _)
GCD(a, b) == IF b = 0 THEN a ELSE GCD(b, a % b)

\* n / d in binary64
Frac(n, d) ==
    IF d = 0 THEN << Sign(n), 0 >>
    ELSE LET g == GCD(Abs(n), Abs(d))
         IN  << Sign(d) * (n \div g), Abs(d) \div g >>

Dbl(n) == << n, 1 >>

\* a <= b on doubles that are not NaN
FracLe(a, b) == a[1] * b[2] <= b[1] * a[2]

\* static_cast<int> of a non-NaN quotient n / d, d > 0: truncation toward zero
TruncDiv(n, d) == IF n >= 0 THEN n \div d ELSE 0 - ((0 - n) \div d)

\* an output row between its allocation and its first write
Uninit == << "uninitialized" >>

----------------------------------------------------------------------------
(* compute_centers_of_mass *)

Sentinel == << Dbl(0 - 1), Dbl(0 - 1) >>

SkipPixelLe(pixel, th) == pixel <= th
SkipPixel(pixel, th) == pixel < th

IsZeroTotalNeg(t) == t < 0
IsZeroTotal(t) == t = 0

\* the two nested loops over indexQY, indexQX from flat offset k on;
\* acc = <<sumQY, sumQX, totalSum>>
RECURSIVE ComAccumulate(_, _, _, _, _, _)
ComAccumulate(img, h, w, th, k, acc) ==
    IF k >= h * w THEN acc
    ELSE LET indexQY == k \div w
             indexQX == k % w
             pixel == img[indexQY * w + indexQX + 1]
         IN  IF SkipPixel(pixel, th)
             THEN ComAccumulate(img, h, w, th, k + 1, acc)
             ELSE ComAccumulate(img, h, w, th, k + 1,
                     << acc[1] + pixel * indexQY,
                        acc[2] + pixel * indexQX,
                        acc[3] + pixel >>)

InitCom ==
    /\ pc = "start"
    /\ error = "none"
    /\ ndim \in NDims
    /\ cContiguous \in BOOLEAN
    /\ nImages \in 0..MaxImages
    /\ \E s \in Shapes(ComMaxFrame) : nQY = s[1] /\ nQX = s[2]
    /\ threshold \in Thresholds
    /\ nPhiBins = 0 /\ QRange = << 0, 0 >> /\ qCallibration = 0
    /\ imageIndex = 0
    /\ image = << >>
    /\ sumQY = 0 /\ sumQX = 0 /\ totalSum = 0
    /\ centersOfMass = << >>
    /\ pixelsQ = << >> /\ pixelsPhi = << >>
    /\ validPixels = << >> /\ binIndicies = << >>
    /\ phiBinsSum = << >> /\ pixelCount = << >>
    /\ aziIntensityProfiles = << >>

ComValidate ==
    /\ pc = "start"
    /\ IF ndim # 3
       THEN /\ pc' = "error" /\ error' = "shape"
            /\ UNCHANGED centersOfMass
       ELSE IF ~cContiguous
       THEN /\ pc' = "error" /\ error' = "contiguity"
            /\ UNCHANGED centersOfMass
       ELSE /\ pc' = "image" /\ error' = "none"
            /\ centersOfMass' = Uninit
    /\ UNCHANGED << inputVars, imageIndex, image, sumQY, sumQX, totalSum,
                    geomVars, crownVars >>

ComBeginImage ==
    /\ pc = "image"
    /\ imageIndex < nImages
    /\ centersOfMass' = << Dbl(0), Dbl(0) >>
    /\ sumQY' = 0 /\ sumQX' = 0 /\ totalSum' = 0
    /\ pc' = "sweep"
    /\ UNCHANGED << error, inputVars, imageIndex, image, geomVars, crownVars >>

ComSweep ==
    /\ pc = "sweep"
    /\ \E f \in Frames(nQY, nQX, PixelValues) :
          LET acc == ComAccumulate(f, nQY, nQX, threshold, 0,
                                   << sumQY, sumQX, totalSum >>)
          IN  /\ image' = f
              /\ sumQY' = acc[1]
              /\ sumQX' = acc[2]
              /\ totalSum' = acc[3]
    /\ pc' = "write"
    /\ UNCHANGED << error, inputVars, imageIndex, centersOfMass,
                    geomVars, crownVars >>

ComWrite ==
    /\ pc = "write"
    /\ centersOfMass' =
          IF IsZeroTotal(totalSum)
          THEN Sentinel
          ELSE << Frac(sumQY, totalSum), Frac(sumQX, totalSum) >>
    /\ pc' = "written"
    /\ UNCHANGED << error, inputVars, imageIndex, image, sumQY, sumQX, totalSum,
                    geomVars, crownVars >>

\* imageIndex++ of the image loop
ComNextImage ==
    /\ pc = "written"
    /\ imageIndex' = imageIndex + 1
    /\ image' = << >>
    /\ centersOfMass' = Uninit
    /\ pc' = "image"
    /\ UNCHANGED << error, inputVars, sumQY, sumQX, totalSum,
                    geomVars, crownVars >>

ComReturn ==
    /\ pc = "image"
    /\ imageIndex >= nImages
    /\ pc' = "done"
    /\ UNCHANGED << error, inputVars, imageIndex, image, comVars,
                    geomVars, crownVars >>

NextCom ==
    \/ ComValidate \/ ComBeginImage \/ ComSweep \/ ComWrite
    \/ ComNextImage \/ ComReturn

SpecCom == InitCom /\ [][NextCom]_vars

----------------------------------------------------------------------------
(* compute_crown_integral: polar geometry *)

Deg(d) == d * 1000000

\* std::atan2(QY, QX) * 180.0 / M_PI in binary64 for -2 <= QY, QX <= 2, as
\* the floor of its value in micro-degrees; the multiples of 45 degrees are
\* exact doubles.  Row QY + 3, column QX + 3.
Atan2Table ==
  << << -135000000, -116565052,  -90000000,  -63434949,  -45000000 >>,
     << -153434949, -135000000,  -90000000,  -45000000,  -26565052 >>,
     <<  180000000,  180000000,          0,          0,          0 >>,
     <<  153434948,  135000000,   90000000,   45000000,   26565051 >>,
     <<  135000000,  116565051,   90000000,   63434948,   45000000 >> >>

Atan2Deg(QY, QX) == Atan2Table[QY + 3][QX + 3]

BeamCenter(n) == n \div 2

Pixels(h, w) == (0..(h - 1)) \X (0..(w - 1))

WrapAngle(phi) == IF phi < 0 THEN phi + Deg(360) ELSE phi

\* std::sqrt(QY*QY + QX*QX) * qCallibration is kept as <<QY*QY + QX*QX, q>>.
\* For the bounded integers q and m the comparison of the double with m
\* agrees with the comparison of the real number sqrt(d2) * q with m.
RadiusOf(QY, QX, q) == << QY * QY + QX * QX, q >>

RadiusSign(r) == IF r[1] = 0 THEN 0 ELSE Sign(r[2])
RadiusSq(r) == r[1] * r[2] * r[2]

\* r >= m
RadiusGe(r, m) ==
    IF m > 0 THEN RadiusSign(r) > 0 /\ RadiusSq(r) >= m * m
    ELSE RadiusSign(r) >= 0 \/ RadiusSq(r) <= m * m

\* r <= m
RadiusLe(r, m) ==
    IF m < 0 THEN RadiusSign(r) < 0 /\ RadiusSq(r) >= m * m
    ELSE RadiusSign(r) <= 0 \/ RadiusSq(r) <= m * m

InQRangeLowerOnly(r, range) == RadiusGe(r, range[1])
InQRange(r, range) == RadiusGe(r, range[1]) /\ RadiusLe(r, range[2])

Clamp(v, lo, hi) == IF v < lo THEN lo ELSE IF hi < v THEN hi ELSE v

\* static_cast<int>(phi / (360.0 / n)) clamped; 360.0 / n and the quotient
\* are exact or far from an integer for the angles of Atan2Table
BinOfRounded(phi, n) ==
    Clamp(TruncDiv(2 * phi * n + Deg(360), 2 * Deg(360)), 0, n - 1)
BinOf(phi, n) == Clamp(TruncDiv(phi * n, Deg(360)), 0, n - 1)

PhiOf(p, h, w) ==
    WrapAngle(Atan2Deg(p[1] - BeamCenter(h), p[2] - BeamCenter(w)))

QOf(p, h, w, q) == RadiusOf(p[1] - BeamCenter(h), p[2] - BeamCenter(w), q)

----------------------------------------------------------------------------
(* compute_crown_integral: image stack processing *)

NegSampleOrZero(sample) == sample <= 0
NegSample(sample) == sample < 0

ZeroBins(n) == [b \in 0..(n - 1) |-> 0]

\* a row of aziIntensityProfiles as the initial fill leaves it
ZeroProfile(n) == [b \in 0..(n - 1) |-> Dbl(0)]

FreshSum(n) == ZeroBins(n)

FreshCountKept(n) == IF pixelCount = << >> THEN ZeroBins(n) ELSE pixelCount
FreshCount(n) == ZeroBins(n)

MeanOrKeepSum(old, sum, count) == IF count > 0 THEN Dbl(sum) ELSE old
MeanOrKeep(old, sum, count) == IF count > 0 THEN Frac(sum, count) ELSE old

\* the two nested loops over iQY, iQX from flat offset k on;
\* acc = <<phiBinsSum, pixelCount>>
RECURSIVE CrownAccumulate(_, _, _, _, _, _, _)
CrownAccumulate(img, h, w, valid, bins, k, acc) ==
    IF k >= h * w THEN acc
    ELSE LET iQY == k \div w
             iQX == k % w
             sample == img[iQY * w + iQX + 1]
         IN  IF ~valid[<< iQY, iQX >>]
             THEN CrownAccumulate(img, h, w, valid, bins, k + 1, acc)
             ELSE IF NegSample(sample)
             THEN CrownAccumulate(img, h, w, valid, bins, k + 1, acc)
             ELSE LET b == bins[<< iQY, iQX >>]
                  IN  CrownAccumulate(img, h, w, valid, bins, k + 1,
                         << [acc[1] EXCEPT ![b] = @ + sample],
                            [acc[2] EXCEPT ![b] = @ + 1] >>)

InitCrownWith(shapes, maxImages) ==
    /\ pc = "start"
    /\ error = "none"
    /\ ndim \in NDims
    /\ cContiguous \in BOOLEAN
    /\ nImages \in 0..maxImages
    /\ \E s \in shapes : nQY = s[1] /\ nQX = s[2]
    /\ threshold = 0
    /\ nPhiBins \in 1..MaxPhiBins
    /\ QRange \in QRanges
    /\ qCallibration \in QCalValues
    /\ imageIndex = 0
    /\ image = << >>
    /\ sumQY = 0 /\ sumQX = 0 /\ totalSum = 0
    /\ centersOfMass = << >>
    /\ pixelsQ = << >> /\ pixelsPhi = << >>
    /\ validPixels = << >> /\ binIndicies = << >>
    /\ phiBinsSum = << >> /\ pixelCount = << >>
    /\ aziIntensityProfiles = << >>

InitCrown == InitCrownWith(Shapes(CrownMaxFrame), MaxImages)

InitGeom == InitCrownWith((1..GeomMaxDim) \X (1..GeomMaxDim), 0)

CrownValidate ==
    /\ pc = "start"
    /\ IF ndim # 3
       THEN pc' = "error" /\ error' = "shape"
       ELSE pc' = "geometry" /\ error' = "none"
    /\ UNCHANGED << inputVars, imageIndex, image, comVars, geomVars, crownVars >>

CrownGeometry ==
    /\ pc = "geometry"
    /\ pixelsQ' = [p \in Pixels(nQY, nQX) |-> QOf(p, nQY, nQX, qCallibration)]
    /\ pixelsPhi' = [p \in Pixels(nQY, nQX) |-> PhiOf(p, nQY, nQX)]
    /\ validPixels' = [p \in Pixels(nQY, nQX) |-> InQRange(pixelsQ'[p], QRange)]
    /\ binIndicies' = [p \in {v \in Pixels(nQY, nQX) : validPixels'[v]} |->
                          BinOf(pixelsPhi'[p], nPhiBins)]
    /\ pc' = "output"
    /\ UNCHANGED << error, inputVars, imageIndex, image, comVars, crownVars >>

CrownInitOutput ==
    /\ pc = "output"
    /\ aziIntensityProfiles' = ZeroProfile(nPhiBins)
    /\ pc' = "image"
    /\ UNCHANGED << error, inputVars, imageIndex, image, comVars, geomVars,
                    phiBinsSum, pixelCount >>

CrownBeginImage ==
    /\ pc = "image"
    /\ imageIndex < nImages
    /\ phiBinsSum' = FreshSum(nPhiBins)
    /\ pixelCount' = FreshCount(nPhiBins)
    /\ pc' = "sweep"
    /\ UNCHANGED << error, inputVars, imageIndex, image, comVars, geomVars,
                    aziIntensityProfiles >>

CrownSweep ==
    /\ pc = "sweep"
    /\ \E f \in Frames(nQY, nQX, CrownPixelValues) :
          LET acc == CrownAccumulate(f, nQY, nQX, validPixels, binIndicies,
                                     0, << phiBinsSum, pixelCount >>)
          IN  /\ image' = f
              /\ phiBinsSum' = acc[1]
              /\ pixelCount' = acc[2]
    /\ pc' = "average"
    /\ UNCHANGED << error, inputVars, imageIndex, comVars, geomVars,
                    aziIntensityProfiles >>

CrownAverage ==
    /\ pc = "average"
    /\ aziIntensityProfiles' =
          [b \in 0..(nPhiBins - 1) |->
              MeanOrKeep(aziIntensityProfiles[b], phiBinsSum[b], pixelCount[b])]
    /\ pc' = "written"
    /\ UNCHANGED << error, inputVars, imageIndex, image, comVars, geomVars,
                    phiBinsSum, pixelCount >>

\* ++iImage of the image loop; the next row is as the initial fill left it
CrownNextImage ==
    /\ pc = "written"
    /\ imageIndex' = imageIndex + 1
    /\ image' = << >>
    /\ aziIntensityProfiles' = ZeroProfile(nPhiBins)
    /\ pc' = "image"
    /\ UNCHANGED << error, inputVars, comVars, geomVars, phiBinsSum, pixelCount >>

CrownReturn ==
    /\ pc = "image"
    /\ imageIndex >= nImages
    /\ pc' = "done"
    /\ UNCHANGED << error, inputVars, imageIndex, image, comVars, geomVars,
                    crownVars >>

NextCrown ==
    \/ CrownValidate \/ CrownGeometry \/ CrownInitOutput
    \/ CrownBeginImage \/ CrownSweep \/ CrownAverage
    \/ CrownNextImage \/ CrownReturn

SpecCrown == InitCrown /\ [][NextCrown]_vars

NextGeom == CrownValidate \/ CrownGeometry

SpecGeom == InitGeom /\ [][NextGeom]_vars

----------------------------------------------------------------------------
(* Properties of compute_centers_of_mass.  RowWritten: the loop body has   *)
(* finished image imageIndex, whose frame is still held in `image`.        *)

RowWritten == pc = "written"
LastRow == centersOfMass
Offsets == 0..(nQY * nQX - 1)
Qualifying == {k \in Offsets : image[k + 1] >= threshold}
RowOf(k) == k \div nQX
ColOf(k) == k % nQX

\* C1: an image with exactly one pixel (y0, x0) at or above the threshold
\* and every other pixel below it has the output row (y0, x0), for every
\* value of that pixel.
C1_SinglePixelIsCentroid ==
    RowWritten =>
        \A k \in Offsets :
            Qualifying = {k} => LastRow = << Dbl(RowOf(k)), Dbl(ColOf(k)) >>

\* C2: an image whose pixels are all strictly below the threshold has the
\* sentinel row (-1.0, -1.0), whatever the earlier images contained.
C2_AllBelowGivesSentinel ==
    RowWritten => (Qualifying = {} => LastRow = Sentinel)

C2_Witness ==
    /\ RowWritten /\ imageIndex = 1
    /\ Qualifying = {}
    /\ LastRow = Sentinel
    /\ \E k \in Offsets : image[k + 1] # 0

\* C3: the output row is the sentinel (-1.0, -1.0) only if no pixel of the
\* image is at or above the threshold.
C3_SentinelOnlyIfNoneQualifies ==
    RowWritten => (LastRow = Sentinel => Qualifying = {})

\* C10: with a strictly positive threshold the output row is the sentinel
\* exactly when no pixel qualifies, and otherwise a pair (y, x) inside the
\* bounding box of the qualifying pixels, itself inside the frame.
C10_PositiveThresholdInBox ==
    (RowWritten /\ threshold > 0) =>
        IF Qualifying = {}
        THEN LastRow = Sentinel
        ELSE /\ LastRow # Sentinel
             /\ LastRow[1][2] > 0 /\ LastRow[2][2] > 0
             /\ \A k \in Qualifying :
                   \/ \E j \in Qualifying : RowOf(j) < RowOf(k)
                   \/ /\ FracLe(Dbl(0), Dbl(RowOf(k)))
                      /\ FracLe(Dbl(RowOf(k)), LastRow[1])
             /\ \A k \in Qualifying :
                   \/ \E j \in Qualifying : RowOf(j) > RowOf(k)
                   \/ /\ FracLe(LastRow[1], Dbl(RowOf(k)))
                      /\ FracLe(Dbl(RowOf(k)), Dbl(nQY - 1))
             /\ \A k \in Qualifying :
                   \/ \E j \in Qualifying : ColOf(j) < ColOf(k)
                   \/ /\ FracLe(Dbl(0), Dbl(ColOf(k)))
                      /\ FracLe(Dbl(ColOf(k)), LastRow[2])
             /\ \A k \in Qualifying :
                   \/ \E j \in Qualifying : ColOf(j) > ColOf(k)
                   \/ /\ FracLe(LastRow[2], Dbl(ColOf(k)))
                      /\ FracLe(Dbl(ColOf(k)), Dbl(nQX - 1))

C10_Witness ==
    /\ RowWritten /\ threshold > 0
    /\ Cardinality(Qualifying) >= 2
    /\ \E k \in Offsets : image[k + 1] < threshold
    /\ LastRow # Sentinel
    /\ LastRow[1][2] > 1
    /\ LastRow[2][2] > 1

----------------------------------------------------------------------------
(* Properties of compute_crown_integral.  ProfileWritten: the loop body    *)
(* has finished image imageIndex, whose frame is still held in `image`.    *)

GeometryBuilt ==
    pc \in {"output", "image", "sweep", "average", "written", "done"}
SweepDone == pc = "average"
ProfileWritten == pc = "written"
LastProfile == aziIntensityProfiles
Bins == 0..(nPhiBins - 1)
Grid == Pixels(nQY, nQX)
Raw(p) == image[p[1] * nQX + p[2] + 1]
Center == << BeamCenter(nQY), BeamCenter(nQX) >>

\* pixels of the current frame that contribute to bin b
Contributing(b) ==
    {p \in Grid : validPixels[p] /\ Raw(p) >= 0 /\ binIndicies[p] = b}

RECURSIVE RawSum(_)
RawSum(S) == IF S = {} THEN 0
             ELSE LET p == CHOOSE q \in S : TRUE
                  IN  Raw(p) + RawSum(S \ {p})

RECURSIVE CountSum(_, _)
CountSum(cnt, b) == IF b < 0 THEN 0 ELSE cnt[b] + CountSum(cnt, b - 1)

\* C4: output value (i, b) is the sum of the raw samples of image i over
\* the valid pixels of bin b with raw sample >= 0 divided by their number,
\* and exactly 0.0 when there is no such pixel.
C4_BinValueIsMeanOrZero ==
    ProfileWritten =>
        \A b \in Bins :
            LET S == Contributing(b)
            IN  LastProfile[b] =
                    IF S = {} THEN Dbl(0) ELSE Frac(RawSum(S), Cardinality(S))

C4_Witness ==
    /\ ProfileWritten
    /\ \E b \in Bins : /\ Cardinality(Contributing(b)) >= 2
                       /\ LastProfile[b][2] > 1
    /\ \E b \in Bins : /\ Contributing(b) = {}
                       /\ \E p \in Grid : validPixels[p] /\ binIndicies[p] = b
                       /\ LastProfile[b] = Dbl(0)

\* C5: at the end of an image's pixel sweep the per-bin pixel counts add up
\* to the number of pixels that are valid and have a raw sample >= 0.
C5_CountsAddUp ==
    SweepDone =>
        CountSum(pixelCount, nPhiBins - 1) =
            Cardinality({p \in Grid : validPixels[p] /\ Raw(p) >= 0})

C5_Witness ==
    /\ SweepDone
    /\ imageIndex = 1
    /\ Cardinality({b \in Bins : pixelCount[b] > 0}) >= 2
    /\ \E p \in Grid : validPixels[p] /\ Raw(p) < 0
    /\ \E p \in Grid : validPixels[p] /\ Raw(p) = 0
    /\ \E p \in Grid : validPixels[p] /\ Raw(p) > 0

\* the profile of a one-image stack made of the current frame alone
AloneProfile ==
    LET acc == CrownAccumulate(image, nQY, nQX, validPixels, binIndicies, 0,
                               << [b \in Bins |-> 0], [b \in Bins |-> 0] >>)
    IN  [b \in Bins |-> IF acc[2][b] > 0
                        THEN Frac(acc[1][b], acc[2][b])
                        ELSE Dbl(0)]

\* C6: the per-bin running sum and count are zero at the start of every
\* image, and output row i is the row a one-image stack made of frame i
\* alone gives, whatever the frames before it were.
C6_NoCarryOver ==
    /\ pc = "sweep" =>
          \A b \in Bins : phiBinsSum[b] = 0 /\ pixelCount[b] = 0
    /\ ProfileWritten => LastProfile = AloneProfile

C6_Witness ==
    /\ ProfileWritten /\ imageIndex = 1
    /\ LastProfile # ZeroProfile(nPhiBins)
    /\ \E b \in Bins : pixelCount[b] >= 2

\* C7: every valid pixel has exactly one bin index, in [0, nPhiBins-1],
\* equal to floor(angleDeg / (360 / nPhiBins)) with angleDeg in [0, 360);
\* an angle on a bin boundary goes to the bin that starts there (a pixel
\* straight above the beam center has 90 degrees and, with 4 bins, bin 1).
C7_BinIsFloorOfAngle ==
    GeometryBuilt =>
        \A p \in Grid :
            /\ (p[1] > Center[1] /\ p[2] = Center[2]) => pixelsPhi[p] = Deg(90)
            /\ validPixels[p] =>
                  /\ p \in DOMAIN binIndicies
                  /\ binIndicies[p] \in Bins
                  /\ 0 <= pixelsPhi[p] /\ pixelsPhi[p] < Deg(360)
                  /\ binIndicies[p] * Deg(360) <= pixelsPhi[p] * nPhiBins
                  /\ pixelsPhi[p] * nPhiBins < (binIndicies[p] + 1) * Deg(360)
                  /\ (nPhiBins = 4 /\ pixelsPhi[p] = Deg(90)) => binIndicies[p] = 1

C7_Witness ==
    /\ GeometryBuilt
    /\ nPhiBins = 4
    /\ \E p \in Grid : /\ validPixels[p] /\ pixelsPhi[p] = Deg(90)
                       /\ binIndicies[p] = 1
    /\ \E p \in Grid : /\ validPixels[p] /\ pixelsPhi[p] = Deg(270)
                       /\ binIndicies[p] = 3
    /\ \E p \in Grid : /\ validPixels[p] /\ pixelsPhi[p] = Deg(180)
                       /\ binIndicies[p] = 2
    /\ \E p \in Grid : ~validPixels[p]

\* C8: a call with an argument that is not 3-dimensional fails with a shape
\* error and a call with an argument that is not C-contiguous fails with a
\* contiguity error, before any computation and without any output.
C8_RejectsBadInput ==
    /\ ndim # 3 =>
          /\ pc \in {"start", "error"}
          /\ pc = "error" => error = "shape"
          /\ centersOfMass = << >> /\ aziIntensityProfiles = << >>
    /\ (ndim = 3 /\ ~cContiguous) =>
          /\ pc \in {"start", "error"}
          /\ pc = "error" => error = "contiguity"
          /\ centersOfMass = << >> /\ aziIntensityProfiles = << >>

OnlyCenterValid ==
    /\ GeometryBuilt =>
          /\ validPixels[Center]
          /\ \A p \in Grid : validPixels[p] => p = Center
    /\ (SweepDone \/ ProfileWritten) =>
          \A b \in Bins : pixelCount[b] # 0 =>
              /\ validPixels[Center]
              /\ b = binIndicies[Center]
              /\ pixelsPhi[Center] = 0

\* C9: with QRange = [0, 0] the only valid pixel is the beam-center pixel
\* (nQY / 2, nQX / 2), for every frame shape and every qCalibration, and
\* each image has a non-zero count in at most the bin of that pixel.
C9_ZeroRangeOnlyCenter ==
    QRange = << 0, 0 >> => OnlyCenterValid

\* C9 as amended: the same for every non-zero qCalibration.
C9_ZeroRangeOnlyCenterNonZeroCal ==
    (QRange = << 0, 0 >> /\ qCallibration # 0) => OnlyCenterValid

C9_Witness ==
    /\ QRange = << 0, 0 >> /\ qCallibration # 0
    /\ SweepDone
    /\ nQY * nQX >= 3
    /\ validPixels[Center]
    /\ pixelCount[binIndicies[Center]] = 1
    /\ \E p \in Grid : p # Center /\ Raw(p) > 0

====
